---------------------------- MODULE Spec2Model ----------------------------
(***************************************************************************)
(* Model of the two columnar encoders of database-internals:               *)
(*   - the run-length encoder of src/pkg/rle/rle.go        (variable rle)  *)
(*   - the delta encoder with checkpoints of                               *)
(*     src/pkg/delta-encoding/de.go                        (variable de)   *)
(* Every Go method is an operator on the encoder record, computed as the   *)
(* code computes it; slices are sequences, so Go index i is index i+1.     *)
(* A read of a slice outside its bounds is a Go run-time panic: the        *)
(* operators return it as panic |-> TRUE, and the program stops there.     *)
(***************************************************************************)
EXTENDS Integers, Sequences, FiniteSets, TLC

VARIABLES rle, rleRows, de, res

vars == <<rle, rleRows, de, res>>

(***************************************************************************)
(* Bounds of the model.                                                    *)
(***************************************************************************)
MaxRleRows == 5

MaxDeRows == 9

MaxIdRows == 4

IntWidth == 3

(***************************************************************************)
(* Strings.  A Go string is a sequence of bytes; == is equality of the     *)
(* sequences and < is the lexicographic order of the bytes.                *)
(***************************************************************************)
EmptyStr == << >>

Keys == { << >>, <<1>>, <<1, 2>>, <<2>> }

RECURSIVE StrLess(_, _)
StrLess(a, b) ==
    IF Len(b) = 0 THEN FALSE
    ELSE IF Len(a) = 0 THEN TRUE
    ELSE IF a[1] < b[1] THEN TRUE
    ELSE IF a[1] > b[1] THEN FALSE
    ELSE StrLess(Tail(a), Tail(b))

StrLessEq(a, b) == a = b \/ StrLess(a, b)

(***************************************************************************)
(* The run-length encoder.                                                 *)
(***************************************************************************)
InitRLE ==
    [idList |-> << >>, valueList |-> << >>, TSRuns |-> << >>, tsRunEnds |-> << >>]

RleZeroRow == [ID |-> 0, Value |-> 0, TS |-> EmptyStr]

\* rle.go:39, the test that opens a new run
StartsNewRun_NeverMerge(runs, ts) == TRUE

StartsNewRun_FirstRun(runs, ts) ==
    Len(runs) = 0 \/ runs[1].ts # ts

StartsNewRun(runs, ts) ==
    Len(runs) = 0 \/ runs[Len(runs)].ts # ts

\* rle.go:44-48, the cumulative offset pushed for a new run
NextRunEnd_NoPrefix(ends) == 1

NextRunEnd(ends) ==
    IF Len(ends) = 0 THEN 1 ELSE ends[Len(ends)] + 1

\* rle.go:49-52 counting the row into the first run instead of the last
RleAppendRow_BumpFirst(r, row) ==
    LET a == [r EXCEPT !.idList = Append(@, row.ID),
                       !.valueList = Append(@, row.Value)]
    IN  IF StartsNewRun(r.TSRuns, row.TS)
        THEN [a EXCEPT !.TSRuns = Append(@, [ts |-> row.TS, count |-> 1]),
                       !.tsRunEnds = Append(@, NextRunEnd(r.tsRunEnds))]
        ELSE [a EXCEPT !.TSRuns[1].count = @ + 1,
                       !.tsRunEnds[1] = @ + 1]

RleAppendRow(r, row) ==
    LET a == [r EXCEPT !.idList = Append(@, row.ID),
                       !.valueList = Append(@, row.Value)]
    IN  IF StartsNewRun(r.TSRuns, row.TS)
        THEN [a EXCEPT !.TSRuns = Append(@, [ts |-> row.TS, count |-> 1]),
                       !.tsRunEnds = Append(@, NextRunEnd(r.tsRunEnds))]
        ELSE [a EXCEPT !.TSRuns[Len(r.TSRuns)].count = @ + 1,
                       !.tsRunEnds[Len(r.tsRunEnds)] = @ + 1]

OkTS(s) == [panic |-> FALSE, ts |-> s]

PanicTS == [panic |-> TRUE, ts |-> EmptyStr]

\* rle.go:77
RunCovers_Strict(count, rowID) == count > rowID

RunCovers(count, rowID) == count >= rowID

\* rle.go:76-82, the loop over the runs; i is the Go index of the entry
RECURSIVE GetTSLoop(_, _, _)
GetTSLoop(runs, i, rowID) ==
    IF i >= Len(runs) THEN EmptyStr
    ELSE IF RunCovers(runs[i + 1].count, rowID) THEN runs[i + 1].ts
    ELSE GetTSLoop(runs, i + 1, rowID - runs[i + 1].count)

GetTSFromRowID(r, rowID) ==
    IF rowID <= 0 \/ rowID > Len(r.idList)
    THEN OkTS(EmptyStr)
    ELSE OkTS(GetTSLoop(r.TSRuns, 0, rowID))

\* rle.go:96
EndReaches_Strict(end, rowID) == end > rowID

EndReaches(end, rowID) == end >= rowID

\* rle.go:94-101, the binary search; the result is the final low
RECURSIVE SearchRunEnds(_, _, _, _)
SearchRunEnds(ends, low, high, rowID) ==
    IF low > high THEN low
    ELSE LET mid == (low + high) \div 2
         IN  IF EndReaches(ends[mid + 1], rowID)
             THEN SearchRunEnds(ends, low, mid - 1, rowID)
             ELSE SearchRunEnds(ends, mid + 1, high, rowID)

\* rle.go:88, the left operand of ||; the right operand, which reads
\* tsRunEnds[len-1], is evaluated only when the left one is false
BelowFirstRow_ZeroBased(rowID) == rowID < 0

BelowFirstRow(rowID) == rowID <= 0

GetTSFromRowIDFaster(r, rowID) ==
    IF BelowFirstRow(rowID) THEN OkTS(EmptyStr)
    ELSE IF Len(r.tsRunEnds) = 0 THEN PanicTS
    ELSE IF rowID > r.tsRunEnds[Len(r.tsRunEnds)] THEN OkTS(EmptyStr)
    ELSE LET low == SearchRunEnds(r.tsRunEnds, 0, Len(r.tsRunEnds) - 1, rowID)
         IN  IF low < Len(r.TSRuns)
             THEN OkTS(r.TSRuns[low + 1].ts)
             ELSE PanicTS

RleRowResult(row) == [panic |-> FALSE, err |-> FALSE, row |-> row]

RleRowNotFound == [panic |-> FALSE, err |-> TRUE, row |-> RleZeroRow]

RleRowPanic == [panic |-> TRUE, err |-> FALSE, row |-> RleZeroRow]

\* rle.go:61-67 with a guard on the length of valueList as well
RleReconstructRow_Guarded(r, rowID) ==
    IF rowID <= 0 \/ rowID > Len(r.idList) \/ rowID > Len(r.valueList)
    THEN RleRowNotFound
    ELSE LET t == GetTSFromRowIDFaster(r, rowID)
         IN  IF t.panic THEN RleRowPanic
             ELSE RleRowResult([ID |-> r.idList[rowID],
                                Value |-> r.valueList[rowID],
                                TS |-> t.ts])

RleReconstructRow(r, rowID) ==
    IF rowID <= 0 \/ rowID > Len(r.idList) THEN RleRowNotFound
    ELSE LET t == GetTSFromRowIDFaster(r, rowID)
         IN  IF t.panic \/ rowID > Len(r.valueList) THEN RleRowPanic
             ELSE RleRowResult([ID |-> r.idList[rowID],
                                Value |-> r.valueList[rowID],
                                TS |-> t.ts])

CountOk(c) == [panic |-> FALSE, err |-> FALSE, count |-> c]

CountNotFound == [panic |-> FALSE, err |-> TRUE, count |-> 0]

\* rle.go:109-114
RECURSIVE GetCountLoop(_, _, _)
GetCountLoop(runs, i, ts) ==
    IF i >= Len(runs) THEN CountNotFound
    ELSE IF runs[i + 1].ts = ts THEN CountOk(runs[i + 1].count)
    ELSE GetCountLoop(runs, i + 1, ts)

\* rle.go:108-115 returning the last matching run instead of the first
GetCountofTS_LastRun(r, ts) ==
    LET m == {i \in 1 .. Len(r.TSRuns) : r.TSRuns[i].ts = ts}
    IN  IF m = {} THEN CountNotFound
        ELSE CountOk(r.TSRuns[CHOOSE i \in m : \A j \in m : j <= i].count)

GetCountofTS(r, ts) == GetCountLoop(r.TSRuns, 0, ts)

\* rle.go:126, the branch that moves low up
GoesRight_Flipped(runTs, ts) == StrLess(ts, runTs)

GoesRight(runTs, ts) == StrLess(runTs, ts)

\* rle.go:122-131
RECURSIVE SearchRuns(_, _, _, _)
SearchRuns(runs, low, high, ts) ==
    IF low > high THEN CountNotFound
    ELSE LET mid == (low + high) \div 2
         IN  IF runs[mid + 1].ts = ts THEN CountOk(runs[mid + 1].count)
             ELSE IF GoesRight(runs[mid + 1].ts, ts)
                  THEN SearchRuns(runs, mid + 1, high, ts)
                  ELSE SearchRuns(runs, low, mid - 1, ts)

GetCountofTSFaster(r, ts) == SearchRuns(r.TSRuns, 0, Len(r.TSRuns) - 1, ts)

(***************************************************************************)
(* The delta encoder.  Value and TS are int64 in the code; the model keeps *)
(* two's-complement integers of IntWidth bits, and + and - wrap.           *)
(***************************************************************************)
Pow2(n) == 2 ^ n

MinInt == 0 - Pow2(IntWidth - 1)

MaxInt == Pow2(IntWidth - 1) - 1

\* integer arithmetic that saturates at the extremes instead of wrapping
Wrap_Saturate(x) == IF x > MaxInt THEN MaxInt ELSE IF x < MinInt THEN MinInt ELSE x

Wrap(x) == ((x - MinInt) % Pow2(IntWidth)) + MinInt

DefaultCheckpointInterval == 4

InitDE ==
    [idList |-> << >>, deltaValueList |-> << >>, deltaTsList |-> << >>,
     originalRows |-> << >>, lastValue |-> 0, lastTs |-> 0,
     checkpointInterval |-> DefaultCheckpointInterval,
     checkpointValues |-> << >>, checkpointTs |-> << >>]

DeZeroRow == [ID |-> 0, Value |-> 0, TS |-> 0]

\* de.go:58
IsCheckpointRow_OffByOne(n, interval) == n % interval = 1

IsCheckpointRow(n, interval) == n % interval = 0

\* de.go:41-62 with the two checkpoint columns exchanged
DeAppendRow_SwappedCheckpoint(d, row) ==
    LET a == IF Len(d.idList) = 0
             THEN [d EXCEPT !.deltaValueList = Append(@, 0),
                            !.deltaTsList = Append(@, 0),
                            !.checkpointValues = Append(@, row.Value),
                            !.checkpointTs = Append(@, row.TS)]
             ELSE [d EXCEPT !.deltaValueList = Append(@, Wrap(row.Value - d.lastValue)),
                            !.deltaTsList = Append(@, Wrap(row.TS - d.lastTs))]
        b == [a EXCEPT !.idList = Append(@, row.ID),
                       !.lastValue = row.Value,
                       !.lastTs = row.TS,
                       !.originalRows = Append(@, row)]
    IN  IF IsCheckpointRow(Len(b.idList), b.checkpointInterval)
        THEN [b EXCEPT !.checkpointValues = Append(@, row.TS),
                       !.checkpointTs = Append(@, row.Value)]
        ELSE b

\* de.go:41-62 without the update of lastValue and lastTs (de.go:53-54)
DeAppendRow_StaleLast(d, row) ==
    LET a == IF Len(d.idList) = 0
             THEN [d EXCEPT !.deltaValueList = Append(@, 0),
                            !.deltaTsList = Append(@, 0),
                            !.checkpointValues = Append(@, row.Value),
                            !.checkpointTs = Append(@, row.TS)]
             ELSE [d EXCEPT !.deltaValueList = Append(@, Wrap(row.Value - d.lastValue)),
                            !.deltaTsList = Append(@, Wrap(row.TS - d.lastTs))]
        b == [a EXCEPT !.idList = Append(@, row.ID),
                       !.originalRows = Append(@, row)]
    IN  IF IsCheckpointRow(Len(b.idList), b.checkpointInterval)
        THEN [b EXCEPT !.checkpointValues = Append(@, row.Value),
                       !.checkpointTs = Append(@, row.TS)]
        ELSE b

DeAppendRow(d, row) ==
    LET a == IF Len(d.idList) = 0
             THEN [d EXCEPT !.deltaValueList = Append(@, 0),
                            !.deltaTsList = Append(@, 0),
                            !.checkpointValues = Append(@, row.Value),
                            !.checkpointTs = Append(@, row.TS)]
             ELSE [d EXCEPT !.deltaValueList = Append(@, Wrap(row.Value - d.lastValue)),
                            !.deltaTsList = Append(@, Wrap(row.TS - d.lastTs))]
        b == [a EXCEPT !.idList = Append(@, row.ID),
                       !.lastValue = row.Value,
                       !.lastTs = row.TS,
                       !.originalRows = Append(@, row)]
    IN  IF IsCheckpointRow(Len(b.idList), b.checkpointInterval)
        THEN [b EXCEPT !.checkpointValues = Append(@, row.Value),
                       !.checkpointTs = Append(@, row.TS)]
        ELSE b

DeRowResult(row) == [panic |-> FALSE, err |-> FALSE, row |-> row]

DeRowNotFound == [panic |-> FALSE, err |-> TRUE, row |-> DeZeroRow]

DeRowPanic == [panic |-> TRUE, err |-> FALSE, row |-> DeZeroRow]

\* de.go:98
DeRejects_ZeroBased(d, rowID) == rowID < 0 \/ rowID >= Len(d.idList)

DeRejects(d, rowID) == rowID <= 0 \/ rowID > Len(d.idList)

\* de.go:111, the loop condition
InLoop_Exclusive(ind, rowIndex) == ind < rowIndex

InLoop(ind, rowIndex) == ind <= rowIndex

\* de.go:111-114; ind is the Go index, acc the row being accumulated
RECURSIVE DeltaLoop(_, _, _, _)
DeltaLoop(d, ind, rowIndex, acc) ==
    IF ~InLoop(ind, rowIndex) THEN DeRowResult(acc)
    ELSE IF ind >= Len(d.deltaValueList) \/ ind >= Len(d.deltaTsList)
         THEN DeRowPanic
    ELSE DeltaLoop(d, ind + 1, rowIndex,
                   [acc EXCEPT !.Value = Wrap(@ + d.deltaValueList[ind + 1]),
                               !.TS = Wrap(@ + d.deltaTsList[ind + 1])])

\* de.go:111, the number of times the loop body runs
RECURSIVE DeltaLoopSteps(_, _)
DeltaLoopSteps(ind, rowIndex) ==
    IF ~InLoop(ind, rowIndex) THEN 0
    ELSE 1 + DeltaLoopSteps(ind + 1, rowIndex)

\* Go's / truncates toward zero
GoDiv(a, b) == IF a >= 0 THEN a \div b ELSE 0 - ((0 - a) \div b)

DeReconstructRow(d, rowID) ==
    IF DeRejects(d, rowID) THEN DeRowNotFound
    ELSE LET checkpointIndex == GoDiv(rowID - 1, d.checkpointInterval)
             rowIndex == rowID - 1
         IN  IF checkpointIndex < 0
                \/ checkpointIndex >= Len(d.checkpointValues)
                \/ checkpointIndex >= Len(d.checkpointTs)
             THEN DeRowPanic
             ELSE DeltaLoop(d, checkpointIndex * d.checkpointInterval, rowIndex,
                            [ID |-> rowID,
                             Value |-> d.checkpointValues[checkpointIndex + 1],
                             TS |-> d.checkpointTs[checkpointIndex + 1]])

\* de.go:106-114 started at delta entry 0 instead of the checkpoint's
DeltaEntriesRead_FromBase(d, rowID) == DeltaLoopSteps(0, rowID - 1)

\* de.go:106-114, the number of delta entries ReconstructRow(rowID) adds
\* for a rowID it accepts
DeltaEntriesRead(d, rowID) ==
    DeltaLoopSteps(GoDiv(rowID - 1, d.checkpointInterval) * d.checkpointInterval,
                   rowID - 1)

TableResult(rows) == [panic |-> FALSE, err |-> FALSE, rows |-> rows]

\* de.go:90, the error of ReconstructRow(id) handed on, with nil rows; the
\* error's text names id (de.go:99)
TableNotFound(id) == [panic |-> FALSE, err |-> TRUE, rows |-> << >>, errID |-> id]

\* de.go:87-93 with each row put in front of the rows collected so far
RECURSIVE TableLoop_Prepend(_, _, _)
TableLoop_Prepend(d, i, rows) ==
    IF i >= Len(d.idList) THEN TableResult(rows)
    ELSE LET r == DeReconstructRow(d, d.idList[i + 1])
         IN  IF r.panic THEN [panic |-> TRUE, err |-> FALSE, rows |-> << >>]
             ELSE IF r.err THEN TableNotFound(d.idList[i + 1])
             ELSE TableLoop_Prepend(d, i + 1, <<r.row>> \o rows)

\* de.go:87-93; i is the Go index into idList
RECURSIVE TableLoop(_, _, _)
TableLoop(d, i, rows) ==
    IF i >= Len(d.idList) THEN TableResult(rows)
    ELSE LET r == DeReconstructRow(d, d.idList[i + 1])
         IN  IF r.panic THEN [panic |-> TRUE, err |-> FALSE, rows |-> << >>]
             ELSE IF r.err THEN TableNotFound(d.idList[i + 1])
             ELSE TableLoop(d, i + 1, Append(rows, r.row))

ReconstructTable(d) == TableLoop(d, 0, << >>)

\* de.go:77-81 comparing only the ids of the rows
RECURSIVE VerifyLoop_IdOnly(_, _, _)
VerifyLoop_IdOnly(d, deRows, ind) ==
    IF ind >= Len(d.originalRows) THEN [panic |-> FALSE, ok |-> TRUE]
    ELSE IF ind >= Len(deRows) THEN [panic |-> TRUE, ok |-> FALSE]
    ELSE IF deRows[ind + 1].ID # d.originalRows[ind + 1].ID
         THEN [panic |-> FALSE, ok |-> FALSE]
    ELSE VerifyLoop_IdOnly(d, deRows, ind + 1)

\* de.go:77-81
RECURSIVE VerifyLoop(_, _, _)
VerifyLoop(d, deRows, ind) ==
    IF ind >= Len(d.originalRows) THEN [panic |-> FALSE, ok |-> TRUE]
    ELSE IF ind >= Len(deRows) THEN [panic |-> TRUE, ok |-> FALSE]
    ELSE IF deRows[ind + 1] # d.originalRows[ind + 1]
         THEN [panic |-> FALSE, ok |-> FALSE]
    ELSE VerifyLoop(d, deRows, ind + 1)

VerifyDeltaEncodingCorrectness(d) ==
    LET t == ReconstructTable(d)
    IN  IF t.panic THEN [panic |-> TRUE, ok |-> FALSE]
        ELSE IF t.err THEN [panic |-> FALSE, ok |-> FALSE]
        ELSE VerifyLoop(d, t.rows, 0)

\* de_test.go:114, an assignment to one entry of a delta column from
\* outside the encoder; i is the Go index
CorruptDeltaValue(d, i, v) == [d EXCEPT !.deltaValueList[i + 1] = v]

CorruptDeltaTs(d, i, v) == [d EXCEPT !.deltaTsList[i + 1] = v]

\* the values written over an entry: the next one and the extremes
CorruptValues(old) == {Wrap(old + 1), MinInt, MaxInt} \ {old}

\* no entry of the delta columns has been written from outside: they are
\* what AppendRow (de.go:43-50) made of the retained rows
DeltasIntact(d) ==
    /\ Len(d.deltaValueList) = Len(d.originalRows)
    /\ Len(d.deltaTsList) = Len(d.originalRows)
    /\ \A i \in 1 .. Len(d.originalRows) :
          IF i = 1
          THEN d.deltaValueList[1] = 0 /\ d.deltaTsList[1] = 0
          ELSE /\ d.deltaValueList[i] =
                    Wrap(d.originalRows[i].Value - d.originalRows[i - 1].Value)
               /\ d.deltaTsList[i] =
                    Wrap(d.originalRows[i].TS - d.originalRows[i - 1].TS)

(***************************************************************************)
(* The program.  A caller owns one encoder of each kind and calls their    *)
(* methods one at a time (spec section 5: single-threaded, synchronous).   *)
(* res is what the last call returned; rleRows is the history of the rows  *)
(* passed to RLE.AppendRow (the delta encoder keeps its own, originalRows).*)
(* An uncaught panic ends the program: no call follows it.                 *)
(***************************************************************************)
NoCall == [op |-> "none", rowID |-> 0, key |-> EmptyStr, out |-> [panic |-> FALSE]]

Call(op, rowID, key, out) == [op |-> op, rowID |-> rowID, key |-> key, out |-> out]

Init ==
    /\ rle = InitRLE
    /\ rleRows = << >>
    /\ de = InitDE
    /\ res = NoCall

Running == ~res.out.panic

\* the rows of the tests: ids 1, 2, ... and values 100, 200, ... in append order
RleInput(k) ==
    [ID |-> Len(rle.idList) + 1, Value |-> 100 * (Len(rle.idList) + 1), TS |-> k]

RleRowIDs == -1 .. (Len(rle.idList) + 1)

RleAppend ==
    /\ Running
    /\ Len(rle.idList) < MaxRleRows
    /\ \E k \in Keys :
          /\ rle' = RleAppendRow(rle, RleInput(k))
          /\ rleRows' = Append(rleRows, RleInput(k))
    /\ res' = Call("RLE.AppendRow", 0, EmptyStr, [panic |-> FALSE])
    /\ UNCHANGED de

RleCallReconstructRow ==
    /\ Running
    /\ \E rowID \in RleRowIDs :
          res' = Call("RLE.ReconstructRow", rowID, EmptyStr, RleReconstructRow(rle, rowID))
    /\ UNCHANGED <<rle, rleRows, de>>

RleCallGetTSFromRowID ==
    /\ Running
    /\ \E rowID \in RleRowIDs :
          res' = Call("RLE.GetTSFromRowID", rowID, EmptyStr, GetTSFromRowID(rle, rowID))
    /\ UNCHANGED <<rle, rleRows, de>>

RleCallGetTSFromRowIDFaster ==
    /\ Running
    /\ \E rowID \in RleRowIDs :
          res' = Call("RLE.GetTSFromRowIDFaster", rowID, EmptyStr,
                      GetTSFromRowIDFaster(rle, rowID))
    /\ UNCHANGED <<rle, rleRows, de>>

RleCallGetCountofTS ==
    /\ Running
    /\ \E k \in Keys :
          res' = Call("RLE.GetCountofTS", 0, k, GetCountofTS(rle, k))
    /\ UNCHANGED <<rle, rleRows, de>>

RleCallGetCountofTSFaster ==
    /\ Running
    /\ \E k \in Keys :
          res' = Call("RLE.GetCountofTSFaster", 0, k, GetCountofTSFaster(rle, k))
    /\ UNCHANGED <<rle, rleRows, de>>

NextRLE ==
    \/ RleAppend
    \/ RleCallReconstructRow
    \/ RleCallGetTSFromRowID
    \/ RleCallGetTSFromRowIDFaster
    \/ RleCallGetCountofTS
    \/ RleCallGetCountofTSFaster

SpecRLE == Init /\ [][NextRLE]_vars

\* sample (Value, TS) pairs of the int64 columns: the extremes, so that the
\* differences of neighbours overflow
DeSamples ==
    { [Value |-> MinInt, TS |-> 1],
      [Value |-> MaxInt, TS |-> MinInt] }

\* rows carry the ids 1, 2, ... in append order
DeInput(s) == [ID |-> Len(de.idList) + 1, Value |-> s.Value, TS |-> s.TS]

DeRowIDs == -1 .. (Len(de.idList) + 1)

DeAppend ==
    /\ Running
    /\ Len(de.idList) < MaxDeRows
    /\ \E s \in DeSamples : de' = DeAppendRow(de, DeInput(s))
    /\ res' = Call("DE.AppendRow", 0, EmptyStr, [panic |-> FALSE])
    /\ UNCHANGED <<rle, rleRows>>

\* de.go:97-117 keeping the reconstructed value and timestamp in the
\* lastValue/lastTs trackers
DeCallReconstructRow_TrackingLast ==
    /\ Running
    /\ \E rowID \in DeRowIDs :
          LET out == DeReconstructRow(de, rowID)
          IN  /\ res' = Call("DE.ReconstructRow", rowID, EmptyStr, out)
              /\ de' = IF out.panic \/ out.err THEN de
                       ELSE [de EXCEPT !.lastValue = out.row.Value,
                                       !.lastTs = out.row.TS]
    /\ UNCHANGED <<rle, rleRows>>

DeCallReconstructRow ==
    /\ Running
    /\ \E rowID \in DeRowIDs :
          res' = Call("DE.ReconstructRow", rowID, EmptyStr, DeReconstructRow(de, rowID))
    /\ UNCHANGED <<rle, rleRows, de>>

DeCallReconstructTable ==
    /\ Running
    /\ res' = Call("DE.ReconstructTable", 0, EmptyStr, ReconstructTable(de))
    /\ UNCHANGED <<rle, rleRows, de>>

DeCallVerify ==
    /\ Running
    /\ res' = Call("DE.VerifyDeltaEncodingCorrectness", 0, EmptyStr,
                   VerifyDeltaEncodingCorrectness(de))
    /\ UNCHANGED <<rle, rleRows, de>>

NextDE ==
    \/ DeAppend
    \/ DeCallReconstructRow
    \/ DeCallReconstructTable
    \/ DeCallVerify

SpecDE == Init /\ [][NextDE]_vars

(***************************************************************************)
(* The delta encoder fed rows whose ids are not their 1-based position:    *)
(* AppendRow stores whatever row.ID it is given (de.go:52).                *)
(***************************************************************************)
DeIdChoices == {0, Len(de.idList) + 1, Len(de.idList) + 2}

DeAppendAnyID ==
    /\ Running
    /\ Len(de.idList) < MaxIdRows
    /\ \E id \in DeIdChoices, s \in DeSamples :
          de' = DeAppendRow(de, [ID |-> id, Value |-> s.Value, TS |-> s.TS])
    /\ res' = Call("DE.AppendRow", 0, EmptyStr, [panic |-> FALSE])
    /\ UNCHANGED <<rle, rleRows>>

NextDEIds ==
    \/ DeAppendAnyID
    \/ DeCallReconstructRow
    \/ DeCallReconstructTable
    \/ DeCallVerify

SpecDEIds == Init /\ [][NextDEIds]_vars

(***************************************************************************)
(* The self-test of de_test.go:109-116: rows are appended, one entry of a  *)
(* delta column is overwritten from outside the encoder, and the verifier  *)
(* is called.                                                              *)
(***************************************************************************)
DeCorrupt ==
    /\ Running
    /\ \E i \in 0 .. (Len(de.idList) - 1) :
          \/ \E v \in CorruptValues(de.deltaValueList[i + 1]) :
                /\ de' = CorruptDeltaValue(de, i, v)
                /\ res' = Call("corrupt deltaValueList", i, EmptyStr, [panic |-> FALSE])
          \/ \E v \in CorruptValues(de.deltaTsList[i + 1]) :
                /\ de' = CorruptDeltaTs(de, i, v)
                /\ res' = Call("corrupt deltaTsList", i, EmptyStr, [panic |-> FALSE])
    /\ UNCHANGED <<rle, rleRows>>

NextDECorrupt ==
    \/ DeltasIntact(de) /\ DeAppend
    \/ DeltasIntact(de) /\ DeCorrupt
    \/ DeCallVerify

SpecDECorrupt == Init /\ [][NextDECorrupt]_vars

(***************************************************************************)
(* RLE.AppendRow statement by statement, with a reader that is not         *)
(* serialized against it (spec section 5 leaves the serialization to the   *)
(* caller).  rleRows receives the row when AppendRow is called; how far    *)
(* the call has got is read off the encoder: each statement completes one  *)
(* more of the four slices.  The interleaving is at the granularity of Go  *)
(* statements.                                                             *)
(***************************************************************************)
RECURSIVE RowsInRuns(_)
RowsInRuns(runs) ==
    IF Len(runs) = 0 THEN 0 ELSE Head(runs).count + RowsInRuns(Tail(runs))

\* the call has not yet executed rle.go:36
AtLine36 == Len(rle.idList) < Len(rleRows)

\* rle.go:36 done, rle.go:37 not yet
AtLine37 == ~AtLine36 /\ Len(rle.valueList) < Len(rleRows)

\* rle.go:37 done, the run of the row (rle.go:39-43 or 50) not yet written
AtLine39 == ~AtLine36 /\ ~AtLine37 /\ RowsInRuns(rle.TSRuns) < Len(rleRows)

\* the run written, its offset (rle.go:44-48 or 51) not yet
AtLine44 ==
    /\ ~AtLine36 /\ ~AtLine37 /\ ~AtLine39
    /\ \/ Len(rle.tsRunEnds) < Len(rle.TSRuns)
       \/ Len(rle.tsRunEnds) > 0 /\ rle.tsRunEnds[Len(rle.tsRunEnds)] < Len(rleRows)

\* no AppendRow is in progress
AppendIdle == ~AtLine36 /\ ~AtLine37 /\ ~AtLine39 /\ ~AtLine44

\* the row the call in progress was given
AppendArg == rleRows[Len(rleRows)]

\* rle.go:36
AppendLine36(r, row) == [r EXCEPT !.idList = Append(@, row.ID)]

\* rle.go:37
AppendLine37(r, row) == [r EXCEPT !.valueList = Append(@, row.Value)]

\* rle.go:39-43 and 50
AppendLine39(r, row) ==
    IF StartsNewRun(r.TSRuns, row.TS)
    THEN [r EXCEPT !.TSRuns = Append(@, [ts |-> row.TS, count |-> 1])]
    ELSE [r EXCEPT !.TSRuns[Len(r.TSRuns)].count = @ + 1]

\* rle.go:44-48 after a run was appended, rle.go:51 after a count was raised
AppendLine44(r) ==
    IF Len(r.tsRunEnds) < Len(r.TSRuns)
    THEN [r EXCEPT !.tsRunEnds = Append(@, NextRunEnd(r.tsRunEnds))]
    ELSE [r EXCEPT !.tsRunEnds[Len(r.tsRunEnds)] = @ + 1]

RleAppendCall ==
    /\ Running
    /\ AppendIdle
    /\ Len(rleRows) < MaxRleRows
    /\ \E k \in Keys : rleRows' = Append(rleRows, RleInput(k))
    /\ res' = Call("RLE.AppendRow", 0, EmptyStr, [panic |-> FALSE])
    /\ UNCHANGED <<rle, de>>

RleAppendLine36 ==
    /\ Running
    /\ AtLine36
    /\ rle' = AppendLine36(rle, AppendArg)
    /\ UNCHANGED <<rleRows, de, res>>

RleAppendLine37 ==
    /\ Running
    /\ AtLine37
    /\ rle' = AppendLine37(rle, AppendArg)
    /\ UNCHANGED <<rleRows, de, res>>

RleAppendLine39 ==
    /\ Running
    /\ AtLine39
    /\ rle' = AppendLine39(rle, AppendArg)
    /\ UNCHANGED <<rleRows, de, res>>

RleAppendLine44 ==
    /\ Running
    /\ AtLine44
    /\ rle' = AppendLine44(rle)
    /\ UNCHANGED <<rleRows, de, res>>

NextRLEShared ==
    \/ RleAppendCall
    \/ RleAppendLine36
    \/ RleAppendLine37
    \/ RleAppendLine39
    \/ RleAppendLine44
    \/ RleCallReconstructRow

SpecRLEShared == Init /\ [][NextRLEShared]_vars

(***************************************************************************)
(* The package-global variant of the run-length encoder, src/rle/main.go.  *)
(* Its state is the four package variables idList, valueList, tsRuns and   *)
(* tsRunEnds, held here in the fields of rle (tsRuns in TSRuns).           *)
(***************************************************************************)
\* main.go:27-45, statement for statement the AppendRow of rle.go:35-53
appendRow(r, row) == RleAppendRow(r, row)

\* main.go:63 and main.go:53, the guard of the linear lookup and of
\* reconstructRow
globalRejects(r, rowID) == rowID < 0 \/ rowID >= Len(r.idList)

\* main.go:62-74
getTSFromRowID(r, rowID) ==
    IF globalRejects(r, rowID) THEN OkTS(EmptyStr)
    ELSE OkTS(GetTSLoop(r.TSRuns, 0, rowID))

\* main.go:78-95; the guard reads tsRunEnds[len-1] when rowID >= 0
getTSFromRowIDFaster(r, rowID) ==
    IF rowID < 0 THEN OkTS(EmptyStr)
    ELSE IF Len(r.tsRunEnds) = 0 THEN PanicTS
    ELSE IF rowID > r.tsRunEnds[Len(r.tsRunEnds)] THEN OkTS(EmptyStr)
    ELSE LET low == SearchRunEnds(r.tsRunEnds, 0, Len(r.tsRunEnds) - 1, rowID)
         IN  IF low < Len(r.TSRuns)
             THEN OkTS(r.TSRuns[low + 1].ts)
             ELSE PanicTS

globalRow(row) == [panic |-> FALSE, row |-> row]

globalRowPanic == [panic |-> TRUE, row |-> RleZeroRow]

\* main.go:52-58; idList[rowID] is entry rowID + 1 of the sequence
reconstructRow(r, rowID) ==
    IF globalRejects(r, rowID) THEN globalRow(RleZeroRow)
    ELSE LET t == getTSFromRowIDFaster(r, rowID)
         IN  IF t.panic \/ rowID >= Len(r.valueList) THEN globalRowPanic
             ELSE globalRow([ID |-> r.idList[rowID + 1],
                             Value |-> r.valueList[rowID + 1],
                             TS |-> t.ts])

GlobalAppend ==
    /\ Running
    /\ Len(rle.idList) < MaxRleRows
    /\ \E k \in Keys :
          /\ rle' = appendRow(rle, RleInput(k))
          /\ rleRows' = Append(rleRows, RleInput(k))
    /\ res' = Call("appendRow", 0, EmptyStr, [panic |-> FALSE])
    /\ UNCHANGED de

GlobalCallReconstructRow ==
    /\ Running
    /\ \E rowID \in RleRowIDs :
          res' = Call("reconstructRow", rowID, EmptyStr, reconstructRow(rle, rowID))
    /\ UNCHANGED <<rle, rleRows, de>>

GlobalCallGetTSFromRowID ==
    /\ Running
    /\ \E rowID \in RleRowIDs :
          res' = Call("getTSFromRowID", rowID, EmptyStr, getTSFromRowID(rle, rowID))
    /\ UNCHANGED <<rle, rleRows, de>>

GlobalCallGetTSFromRowIDFaster ==
    /\ Running
    /\ \E rowID \in RleRowIDs :
          res' = Call("getTSFromRowIDFaster", rowID, EmptyStr,
                      getTSFromRowIDFaster(rle, rowID))
    /\ UNCHANGED <<rle, rleRows, de>>

NextRLEGlobal ==
    \/ GlobalAppend
    \/ GlobalCallReconstructRow
    \/ GlobalCallGetTSFromRowID
    \/ GlobalCallGetTSFromRowIDFaster

SpecRLEGlobal == Init /\ [][NextRLEGlobal]_vars

(***************************************************************************)
(* The two encoders are separate packages and share no state.  A caller    *)
(* that works with one of them leaves the other as constructed.            *)
(***************************************************************************)
NextEncoders ==
    \/ de = InitDE /\ NextRLE
    \/ rle = InitRLE /\ NextDE

SpecEncoders == Init /\ [][NextEncoders]_vars

(***************************************************************************)
(* Properties.                                                             *)
(***************************************************************************)
RleLen == Len(rle.idList)

DeLen == Len(de.idList)

RleKeyAt(i) == rleRows[i].TS

\* the appended keys never decrease in Go's string order
KeysNonDecreasing ==
    \A i \in 2 .. Len(rleRows) : StrLessEq(RleKeyAt(i - 1), RleKeyAt(i))

KeyPresent(k) == \E i \in 1 .. Len(rleRows) : RleKeyAt(i) = k

\* the maximal blocks of equal neighbours of a sequence of keys, built from
\* its right end
RECURSIVE MaximalBlocks(_)
MaximalBlocks(ks) ==
    IF Len(ks) = 0 THEN << >>
    ELSE LET rest == MaximalBlocks(Tail(ks))
         IN  IF Len(rest) > 0 /\ rest[1].ts = Head(ks)
             THEN <<[ts |-> Head(ks), count |-> rest[1].count + 1]>> \o Tail(rest)
             ELSE <<[ts |-> Head(ks), count |-> 1]>> \o rest

AppendedKeys == [i \in 1 .. Len(rleRows) |-> RleKeyAt(i)]

\* C1: delta encoder round trip.  After n appends of rows with ids 1..n,
\* ReconstructRow(i) succeeds and returns exactly the i-th appended row, for
\* every i in 1..n, whether or not n is a multiple of checkpointInterval.
C1_DeltaRoundTrip ==
    \A i \in 1 .. DeLen :
        DeReconstructRow(de, i) = DeRowResult(de.originalRows[i])

C1_Witness ==
    /\ DeLen = 2 * de.checkpointInterval + 1
    /\ res.op = "DE.ReconstructRow"
    /\ res.rowID = DeLen
    /\ res.out = DeRowResult(de.originalRows[DeLen])
    /\ de.originalRows[DeLen].Value # de.originalRows[DeLen - 1].Value
    /\ de.originalRows[DeLen].ID = DeLen

\* C2: RLE round trip.  For every rowId in 1..n ReconstructRow(rowId)
\* succeeds and returns the id, value and key of the rowId-th appended row,
\* which are idList[rowId-1], valueList[rowId-1] and
\* GetTSFromRowIDFaster(rowId).
C2_RleRoundTrip ==
    \A rowId \in 1 .. RleLen :
        /\ RleReconstructRow(rle, rowId) = RleRowResult(rleRows[rowId])
        /\ rleRows[rowId] = [ID |-> rle.idList[rowId],
                             Value |-> rle.valueList[rowId],
                             TS |-> GetTSFromRowIDFaster(rle, rowId).ts]

C2_Witness ==
    /\ Len(rle.TSRuns) >= 3
    /\ rle.TSRuns[2].count >= 2
    /\ res.op = "RLE.ReconstructRow"
    /\ res.rowID = rle.tsRunEnds[2]
    /\ res.out = RleRowResult(rleRows[res.rowID])

\* C3: RLE key lookup agreement.  In every reachable state and for every
\* rowId in 1..n, the linear GetTSFromRowID and the binary-search
\* GetTSFromRowIDFaster return the same key.
C3_KeyLookupAgreement ==
    \A rowId \in 1 .. RleLen :
        GetTSFromRowID(rle, rowId) = GetTSFromRowIDFaster(rle, rowId)

C3_Witness ==
    /\ Len(rle.TSRuns) >= 4
    /\ \E i \in 1 .. Len(rle.TSRuns) : rle.TSRuns[i].count >= 2
    /\ res.op = "RLE.GetTSFromRowID"
    /\ res.rowID = RleLen
    /\ res.out = GetTSFromRowIDFaster(rle, RleLen)
    /\ res.out.ts = rleRows[RleLen].TS

\* C4: RLE count agreement under the sorted-key precondition.  When the
\* appended keys are non-decreasing, GetCountofTS and GetCountofTSFaster
\* return the same count without error for every key present, and both
\* fail with count 0 for every key absent.
C4_CountAgreementSorted ==
    KeysNonDecreasing =>
        \A k \in Keys :
            LET a == GetCountofTS(rle, k)
                b == GetCountofTSFaster(rle, k)
            IN  /\ a = b
                /\ KeyPresent(k) => (~a.err /\ ~a.panic /\ a.count >= 1)
                /\ ~KeyPresent(k) => a = CountNotFound

C4_Witness ==
    /\ KeysNonDecreasing
    /\ Len(rle.TSRuns) >= 3
    /\ res.op = "RLE.GetCountofTSFaster"
    /\ res.key = rle.TSRuns[Len(rle.TSRuns)].ts
    /\ res.out = CountOk(2)
    /\ res.out = GetCountofTS(rle, res.key)

\* C5: delta encoder boundary behaviour.  With n >= 0 rows held,
\* ReconstructRow(rowId) with rowId <= 0 or rowId > n fails with the
\* row-not-found error, returns the zero row and leaves the encoder as it
\* was.
C5_DeltaBoundary ==
    /\ [](\A rowId \in {-1, 0, DeLen + 1, DeLen + 2} :
             DeReconstructRow(de, rowId) = DeRowNotFound)
    /\ [][(res'.op = "DE.ReconstructRow"
            /\ (res'.rowID <= 0 \/ res'.rowID > DeLen))
           => (res'.out = DeRowNotFound /\ UNCHANGED <<rle, rleRows, de>>)]_vars

C5_Witness ==
    /\ DeLen >= 1
    /\ res.op = "DE.ReconstructRow"
    /\ res.rowID = 0
    /\ res.out = DeRowNotFound

\* C6: one boundary convention for the three row-id operations of the RLE
\* encoder.  With n >= 1 rows held, ReconstructRow, GetTSFromRowID and
\* GetTSFromRowIDFaster serve exactly the rowIds in 1..n (each returns the
\* key of that row); for rowId <= 0 or > n ReconstructRow returns an error
\* and both lookups return the empty key.
C6_RleBoundaryConvention ==
    RleLen >= 1 =>
        \A rowId \in -1 .. (RleLen + 2) :
            IF rowId \in 1 .. RleLen
            THEN /\ RleReconstructRow(rle, rowId).err = FALSE
                 /\ RleReconstructRow(rle, rowId).panic = FALSE
                 /\ GetTSFromRowID(rle, rowId) = OkTS(RleKeyAt(rowId))
                 /\ GetTSFromRowIDFaster(rle, rowId) = OkTS(RleKeyAt(rowId))
            ELSE /\ RleReconstructRow(rle, rowId) = RleRowNotFound
                 /\ GetTSFromRowID(rle, rowId) = OkTS(EmptyStr)
                 /\ GetTSFromRowIDFaster(rle, rowId) = OkTS(EmptyStr)

C6_Witness ==
    /\ RleLen >= 2
    /\ \A i \in 1 .. RleLen : RleKeyAt(i) # EmptyStr
    /\ res.op = "RLE.GetTSFromRowIDFaster"
    /\ res.rowID = RleLen + 1
    /\ res.out = OkTS(EmptyStr)
    /\ GetTSFromRowID(rle, 0) = OkTS(EmptyStr)
    /\ GetTSFromRowIDFaster(rle, RleLen) = OkTS(RleKeyAt(RleLen))

\* C7: no uncaught faults.  No query of either encoder, in any reachable
\* state, the freshly created empty encoder included, ends in a panic (a
\* read of a slice outside its bounds).
C7_NoUncaughtFault == res.out.panic = FALSE

\* C8: RLE run-merge invariant.  No two neighbouring runs have the same
\* key, and the runs are exactly the maximal blocks of equal consecutive
\* keys in append order (k equal keys in a row make one run of count k).
C8_RunMerge ==
    /\ \A i \in 2 .. Len(rle.TSRuns) : rle.TSRuns[i].ts # rle.TSRuns[i - 1].ts
    /\ rle.TSRuns = MaximalBlocks(AppendedKeys)

C8_Witness ==
    /\ res.op = "RLE.AppendRow"
    /\ Len(rle.TSRuns) = 3
    /\ rle.TSRuns[2].count = 3
    /\ rle.TSRuns[1].ts = rle.TSRuns[3].ts

\* C9: RLE prefix-sum invariant.  After n >= 1 appends tsRunEnds is as long
\* as TSRuns, tsRunEnds[0] = TSRuns[0].count, each later entry is the one
\* before plus its run's count, the entries strictly increase, and the last
\* one equals len(idList) = len(valueList) = n.
C9_PrefixSum ==
    Len(rleRows) >= 1 =>
        /\ Len(rle.tsRunEnds) = Len(rle.TSRuns)
        /\ rle.tsRunEnds[1] = rle.TSRuns[1].count
        /\ \A i \in 2 .. Len(rle.tsRunEnds) :
              /\ rle.tsRunEnds[i] = rle.tsRunEnds[i - 1] + rle.TSRuns[i].count
              /\ rle.tsRunEnds[i] > rle.tsRunEnds[i - 1]
        /\ rle.tsRunEnds[Len(rle.tsRunEnds)] = Len(rle.idList)
        /\ Len(rle.idList) = Len(rle.valueList)
        /\ Len(rle.idList) = Len(rleRows)

C9_Witness ==
    /\ res.op = "RLE.AppendRow"
    /\ Len(rle.TSRuns) = 3
    /\ rle.TSRuns[1].count = 2
    /\ rle.TSRuns[3].count = 2
    /\ rle.tsRunEnds = <<2, 3, 5>>

\* C10: delta checkpoint count.  After n appends checkpointValues and
\* checkpointTs both hold 1 + floor(n / checkpointInterval) entries when
\* n > 0, and none when n = 0.
C10_CheckpointCount ==
    /\ Len(de.checkpointValues) = Len(de.checkpointTs)
    /\ Len(de.checkpointValues) =
          IF DeLen = 0 THEN 0 ELSE 1 + (DeLen \div de.checkpointInterval)
    /\ Len(de.originalRows) = DeLen

C10_Witness ==
    /\ res.op = "DE.AppendRow"
    /\ DeLen = 2 * de.checkpointInterval
    /\ Len(de.checkpointValues) = 3
    /\ Len(de.checkpointTs) = 3

\* the 1-based position in originalRows of the row at Go index i
RowAtIndex(i) == de.originalRows[i + 1]

\* C11 as the spec states it: checkpoint g holds the absolute value and
\* timestamp of the row at 0-based index g*checkpointInterval when g > 0, and
\* of the row at index 0 when g = 0.
C11_CheckpointAtIntervalIndex ==
    \A g \in 0 .. (Len(de.checkpointValues) - 1) :
        LET idx == g * de.checkpointInterval
        IN  idx < DeLen =>
              /\ de.checkpointValues[g + 1] = RowAtIndex(idx).Value
              /\ de.checkpointTs[g + 1] = RowAtIndex(idx).TS

\* C11 amended: checkpoint 0 holds the value and timestamp of the row at
\* 0-based index 0, and checkpoint g > 0 those of the row at 0-based index
\* g*checkpointInterval - 1, the row whose append made the row count
\* g*checkpointInterval.
C11_CheckpointContent ==
    \A g \in 0 .. (Len(de.checkpointValues) - 1) :
        LET idx == IF g = 0 THEN 0 ELSE g * de.checkpointInterval - 1
        IN  /\ idx < DeLen
            /\ g < Len(de.checkpointTs)
            /\ de.checkpointValues[g + 1] = RowAtIndex(idx).Value
            /\ de.checkpointTs[g + 1] = RowAtIndex(idx).TS

C11_Witness ==
    /\ DeLen = 2 * de.checkpointInterval + 1
    /\ Len(de.checkpointValues) = 3
    /\ RowAtIndex(de.checkpointInterval).Value # RowAtIndex(de.checkpointInterval - 1).Value
    /\ RowAtIndex(2 * de.checkpointInterval).TS # RowAtIndex(2 * de.checkpointInterval - 1).TS
    /\ de.checkpointValues[2] = RowAtIndex(de.checkpointInterval - 1).Value
    /\ de.checkpointTs[3] = RowAtIndex(2 * de.checkpointInterval - 1).TS

\* C12: delta column content.  deltaValueList and deltaTsList hold one entry
\* per appended row; entry 0 is 0 and entry i > 0 is value[i] - value[i-1]
\* (timestamp[i] - timestamp[i-1]) of the appended rows, in the arithmetic
\* of the column's integer type.
C12_DeltaContent ==
    /\ Len(de.deltaValueList) = DeLen
    /\ Len(de.deltaTsList) = DeLen
    /\ Len(de.originalRows) = DeLen
    /\ \A i \in 0 .. (DeLen - 1) :
          IF i = 0
          THEN de.deltaValueList[1] = 0 /\ de.deltaTsList[1] = 0
          ELSE /\ de.deltaValueList[i + 1] =
                    Wrap(RowAtIndex(i).Value - RowAtIndex(i - 1).Value)
               /\ de.deltaTsList[i + 1] =
                    Wrap(RowAtIndex(i).TS - RowAtIndex(i - 1).TS)

C12_Witness ==
    /\ res.op = "DE.AppendRow"
    /\ DeLen >= 3
    /\ de.deltaValueList[1] = 0
    /\ de.deltaValueList[2] # 0
    /\ de.deltaValueList[3] = 0
    /\ de.deltaTsList[DeLen] # 0

\* C13: VerifyDeltaEncodingCorrectness returns true on the empty encoder
\* and after every sequence of appends of rows with ids 1..n.
C13_VerifyTrue ==
    VerifyDeltaEncodingCorrectness(de) = [panic |-> FALSE, ok |-> TRUE]

C13_Witness ==
    /\ res.op = "DE.VerifyDeltaEncodingCorrectness"
    /\ res.out = [panic |-> FALSE, ok |-> TRUE]
    /\ DeLen = 2 * de.checkpointInterval + 1
    /\ \E i \in 2 .. DeLen : de.originalRows[i].Value # de.originalRows[i - 1].Value

\* C14: VerifyDeltaEncodingCorrectness detects a corrupted delta.  With
\* n >= 1 rows (ids 1..n) held, replacing any one entry deltaValueList[i] or
\* deltaTsList[i], 0 <= i < n, by a different value makes it return false.
C14_VerifyDetectsCorruption ==
    (res.op = "DE.VerifyDeltaEncodingCorrectness" /\ ~DeltasIntact(de))
        => res.out = [panic |-> FALSE, ok |-> FALSE]

C14_Witness ==
    /\ DeLen = 2 * de.checkpointInterval + 1
    /\ res.op = "DE.VerifyDeltaEncodingCorrectness"
    /\ res.out = [panic |-> FALSE, ok |-> FALSE]
    /\ de.deltaValueList[3] #
         Wrap(de.originalRows[3].Value - de.originalRows[2].Value)

\* the positions of the runs whose key is k, and the first of them
RunsOfKey(k) == {i \in 1 .. Len(rle.TSRuns) : rle.TSRuns[i].ts = k}

FirstRunOfKey(k) == CHOOSE i \in RunsOfKey(k) : \A j \in RunsOfKey(k) : i <= j

\* C15: the linear GetCountofTS returns the count of the first run in
\* append order whose key is the queried key, and fails with count 0 when no
\* run has that key, in every reachable state, the empty encoder included.
C15_LinearCountFirstRun ==
    /\ \A k \in Keys :
          IF RunsOfKey(k) = {}
          THEN GetCountofTS(rle, k) = CountNotFound
          ELSE GetCountofTS(rle, k) = CountOk(rle.TSRuns[FirstRunOfKey(k)].count)
    /\ res.op = "RLE.GetCountofTS" =>
          res.out = IF RunsOfKey(res.key) = {}
                    THEN CountNotFound
                    ELSE CountOk(rle.TSRuns[FirstRunOfKey(res.key)].count)

C15_Witness ==
    /\ res.op = "RLE.GetCountofTS"
    /\ Cardinality(RunsOfKey(res.key)) = 2
    /\ rle.TSRuns[1].ts = res.key
    /\ rle.TSRuns[1].count = 2
    /\ rle.TSRuns[3].ts = res.key
    /\ rle.TSRuns[3].count = 1
    /\ res.out = CountOk(2)
    /\ \E k \in Keys : GetCountofTS(rle, k) = CountNotFound

\* the number of appended rows whose key is k
Occurrences(k) == Cardinality({i \in 1 .. Len(rleRows) : RleKeyAt(i) = k})

\* C16: count queries return the number of occurrences.  When the appended
\* keys are non-decreasing, GetCountofTS(key) and GetCountofTSFaster(key)
\* both equal the number of appended rows whose key is key, for every key
\* that was appended.
C16_CountIsOccurrences ==
    KeysNonDecreasing =>
        \A k \in Keys :
            KeyPresent(k) =>
                /\ GetCountofTS(rle, k) = CountOk(Occurrences(k))
                /\ GetCountofTSFaster(rle, k) = CountOk(Occurrences(k))

C16_Witness ==
    /\ KeysNonDecreasing
    /\ Len(rle.TSRuns) >= 2
    /\ res.op = "RLE.GetCountofTSFaster"
    /\ Occurrences(res.key) = 3
    /\ res.out = CountOk(3)
    /\ GetCountofTS(rle, res.key) = CountOk(3)

\* the positions of idList whose id ReconstructRow rejects, and the first
FailingEntries == {j \in 1 .. DeLen : de.idList[j] \notin 1 .. DeLen}

FirstFailingEntry == CHOOSE j \in FailingEntries : \A k \in FailingEntries : j <= k

\* C17: ReconstructTable on rows with ids 1..n returns exactly the n
\* appended rows in append order; in general it is ReconstructRow of each
\* entry of idList in order, and when a call fails it returns the error of
\* the first failing call and no rows.
C17_ReconstructTable ==
    /\ (\A j \in 1 .. DeLen : de.idList[j] = j) =>
          ReconstructTable(de) = TableResult(de.originalRows)
    /\ FailingEntries = {} =>
          ReconstructTable(de) =
            TableResult([j \in 1 .. DeLen |-> DeReconstructRow(de, de.idList[j]).row])
    /\ FailingEntries # {} =>
          ReconstructTable(de) = TableNotFound(de.idList[FirstFailingEntry])

C17_Witness ==
    /\ res.op = "DE.ReconstructTable"
    /\ DeLen = 3
    /\ de.idList = <<1, 0, 4>>
    /\ res.out = TableNotFound(0)

\* what one append does to a checkpoint column whose entries are cp, the
\* appended row's absolute value being v
AfterAppend(cp, v) ==
    (IF DeLen = 0 THEN Append(cp, v) ELSE cp)
      \o (IF (DeLen + 1) % de.checkpointInterval = 0 THEN <<v>> ELSE << >>)

\* C18: the checkpoint recording step.  AppendRow pushes a checkpoint equal
\* to the first row's value/timestamp when the encoder was empty, and one
\* more equal to the just-appended row's exactly when the row count after
\* the append is a multiple of checkpointInterval, and changes the
\* checkpoints in no other way; hence checkpoint g > 0 is the row at 0-based
\* index g*checkpointInterval - 1.
C18_CheckpointStep ==
    /\ [][Len(de'.idList) = DeLen + 1 =>
            /\ de'.checkpointValues =
                 AfterAppend(de.checkpointValues, de'.originalRows[DeLen + 1].Value)
            /\ de'.checkpointTs =
                 AfterAppend(de.checkpointTs, de'.originalRows[DeLen + 1].TS)]_vars
    /\ [][Len(de'.idList) = DeLen =>
            /\ de'.checkpointValues = de.checkpointValues
            /\ de'.checkpointTs = de.checkpointTs]_vars
    /\ []C11_CheckpointContent

C18_Witness ==
    /\ res.op = "DE.AppendRow"
    /\ DeLen = 2 * de.checkpointInterval
    /\ Len(de.checkpointValues) = 3
    /\ de.checkpointValues[3] = RowAtIndex(DeLen - 1).Value
    /\ de.checkpointTs[3] = RowAtIndex(DeLen - 1).TS
    /\ RowAtIndex(DeLen - 1).Value # RowAtIndex(DeLen - 2).Value
    /\ de.checkpointValues[2] # de.checkpointValues[3]

\* the wrapped sum of the entries lo..hi (Go indices) of a delta column
RECURSIVE DeltaSum(_, _, _)
DeltaSum(column, lo, hi) ==
    IF lo > hi THEN 0
    ELSE Wrap(column[hi + 1] + DeltaSum(column, lo, hi - 1))

\* C19: bounded reconstruction.  For every valid rowId ReconstructRow starts
\* from checkpoint (rowId-1) div checkpointInterval and adds the delta
\* entries from index checkpointIndex*checkpointInterval through rowId-1
\* inclusive: at least 1 and at most checkpointInterval entries, whatever
\* the row count n, and then returns.
C19_BoundedReconstruction ==
    \A rowId \in 1 .. DeLen :
        LET checkpointIndex == (rowId - 1) \div de.checkpointInterval
            first == checkpointIndex * de.checkpointInterval
        IN  /\ DeltaEntriesRead(de, rowId) = rowId - first
            /\ DeltaEntriesRead(de, rowId) >= 1
            /\ DeltaEntriesRead(de, rowId) <= de.checkpointInterval
            /\ DeReconstructRow(de, rowId) =
                 DeRowResult(
                   [ID |-> rowId,
                    Value |-> Wrap(de.checkpointValues[checkpointIndex + 1]
                                   + DeltaSum(de.deltaValueList, first, rowId - 1)),
                    TS |-> Wrap(de.checkpointTs[checkpointIndex + 1]
                                + DeltaSum(de.deltaTsList, first, rowId - 1))])

C19_Witness ==
    /\ DeLen = 2 * de.checkpointInterval + 1
    /\ res.op = "DE.ReconstructRow"
    /\ res.rowID = 2 * de.checkpointInterval
    /\ ~res.out.err
    /\ DeltaEntriesRead(de, res.rowID) = de.checkpointInterval
    /\ DeltaEntriesRead(de, DeLen) = 1

KeyA == <<1>>

KeyB == <<1, 2>>

KeyC == <<2>>

\* C20: the known limitation of GetCountofTSFaster.  When the appended keys
\* are not sorted it can fail for a key that has a run (keys B, A, C and
\* query B) and it can succeed with a count other than GetCountofTS's (keys
\* C, C, B, C, A: the binary search meets the later run of C, and finds no
\* A); it differs from GetCountofTS only when the keys are not sorted.
C20_FasterCountLimitation ==
    /\ AppendedKeys = <<KeyB, KeyA, KeyC>> =>
          /\ GetCountofTSFaster(rle, KeyB) = CountNotFound
          /\ GetCountofTS(rle, KeyB) = CountOk(1)
    /\ AppendedKeys = <<KeyC, KeyC, KeyB, KeyC, KeyA>> =>
          /\ GetCountofTSFaster(rle, KeyC) = CountOk(1)
          /\ GetCountofTS(rle, KeyC) = CountOk(2)
          /\ GetCountofTSFaster(rle, KeyA) = CountNotFound
          /\ GetCountofTS(rle, KeyA) = CountOk(1)
    /\ (\E k \in Keys : GetCountofTSFaster(rle, k) # GetCountofTS(rle, k))
          => ~KeysNonDecreasing

C20_Witness ==
    /\ ~KeysNonDecreasing
    /\ res.op = "RLE.GetCountofTSFaster"
    /\ res.key = KeyC
    /\ res.out = CountOk(1)
    /\ GetCountofTS(rle, KeyC) = CountOk(2)
    /\ RunsOfKey(KeyA) # {}
    /\ GetCountofTSFaster(rle, KeyA) = CountNotFound

\* new holds every entry of old, unchanged and at the same index
PrefixKept(old, new) ==
    /\ Len(new) >= Len(old)
    /\ \A i \in 1 .. Len(old) : new[i] = old[i]

GrowsByOne(old, new) == Len(new) = Len(old) + 1 /\ PrefixKept(old, new)

\* new is old with one entry appended, or old with its last entry changed
LastOnlyChanged(old, new) ==
    \/ GrowsByOne(old, new)
    \/ /\ Len(new) = Len(old)
       /\ \A i \in 1 .. (Len(old) - 1) : new[i] = old[i]

DeAppendGrows ==
    /\ GrowsByOne(de.idList, de'.idList)
    /\ GrowsByOne(de.deltaValueList, de'.deltaValueList)
    /\ GrowsByOne(de.deltaTsList, de'.deltaTsList)
    /\ PrefixKept(de.checkpointValues, de'.checkpointValues)
    /\ PrefixKept(de.checkpointTs, de'.checkpointTs)
    /\ \A i \in 1 .. DeLen : DeReconstructRow(de', i) = DeReconstructRow(de, i)

RleAppendGrows ==
    /\ GrowsByOne(rle.idList, rle'.idList)
    /\ GrowsByOne(rle.valueList, rle'.valueList)
    /\ LastOnlyChanged(rle.TSRuns, rle'.TSRuns)
    /\ LastOnlyChanged(rle.tsRunEnds, rle'.tsRunEnds)
    /\ \A i \in 1 .. RleLen :
          /\ RleReconstructRow(rle', i) = RleReconstructRow(rle, i)
          /\ GetTSFromRowIDFaster(rle', i) = GetTSFromRowIDFaster(rle, i)

\* C21: grow-only state and stable reads.  Every AppendRow lengthens the id
\* column (and the value and delta columns) by exactly one entry and changes
\* no stored entry of the id, value, delta or checkpoint columns; in the RLE
\* encoder it changes at most the last run and the last offset.  Hence
\* ReconstructRow(i) and GetTSFromRowIDFaster(i) of a row i already appended
\* return after the append what they returned before it, and so after every
\* later sequence of appends.
C21_GrowOnly ==
    /\ [][res'.op = "DE.AppendRow" => DeAppendGrows]_vars
    /\ [][res'.op = "RLE.AppendRow" => RleAppendGrows]_vars

C21_Witness ==
    /\ res.op = "RLE.AppendRow"
    /\ Len(rle.TSRuns) >= 3
    /\ rle.TSRuns[Len(rle.TSRuns)].count >= 2
    /\ rle.tsRunEnds[Len(rle.tsRunEnds)] = RleLen
    /\ rle.TSRuns[1].count >= 2

\* C22: sorted input makes the binary-search precondition hold.  If the
\* keys of the appended rows never decrease, the keys of the runs strictly
\* increase and every appended key has exactly one run.
C22_SortedRuns ==
    KeysNonDecreasing =>
        /\ \A i \in 2 .. Len(rle.TSRuns) :
              StrLess(rle.TSRuns[i - 1].ts, rle.TSRuns[i].ts)
        /\ \A k \in Keys :
              IF KeyPresent(k)
              THEN Cardinality(RunsOfKey(k)) = 1
              ELSE RunsOfKey(k) = {}

C22_Witness ==
    /\ KeysNonDecreasing
    /\ res.op = "RLE.AppendRow"
    /\ RleLen = 5
    /\ Len(rle.TSRuns) = 3
    /\ rle.TSRuns[2].count = 2
    /\ rle.TSRuns[3].count = 2
    /\ rle.TSRuns[2].ts = <<1, 2>>

\* C23: the id returned by the delta encoder's ReconstructRow(rowId) is the
\* id stored for that row, idList[rowId-1], whatever ids the appended rows
\* carry (not contiguous, not starting at 1, repeated).
C23_ReturnsStoredId ==
    \A rowId \in 1 .. DeLen :
        LET r == DeReconstructRow(de, rowId)
        IN  ~r.panic /\ ~r.err /\ r.row.ID = de.idList[rowId]

\* the sum of the entries lo..hi (Go indices) of a delta column as
\* mathematical integers, without wrap-around
RECURSIVE PlainSum(_, _, _)
PlainSum(column, lo, hi) ==
    IF lo > hi THEN 0 ELSE column[hi + 1] + PlainSum(column, lo, hi - 1)

InRange(x) == x >= MinInt /\ x <= MaxInt

\* the accumulation of ReconstructRow(i) leaves the integer range on the way
AccumulationOverflows(i) ==
    LET g == (i - 1) \div de.checkpointInterval
    IN  \E j \in (g * de.checkpointInterval) .. (i - 1) :
           ~InRange(de.checkpointValues[g + 1]
                    + PlainSum(de.deltaValueList, g * de.checkpointInterval, j))

\* C24: the delta round trip survives integer wrap-around.  Value and TS are
\* two's-complement integers of IntWidth bits; every stored delta is such an
\* integer, and ReconstructRow(i) returns the exact appended value and
\* timestamp of row i also when value[i] - value[i-1] or the accumulated sum
\* leaves the range and wraps modulo 2^IntWidth.
C24_RoundTripUnderWrap ==
    \A i \in 1 .. DeLen :
        LET r == DeReconstructRow(de, i)
        IN  /\ InRange(de.deltaValueList[i]) /\ InRange(de.deltaTsList[i])
            /\ ~r.panic /\ ~r.err
            /\ r.row.Value = RowAtIndex(i - 1).Value
            /\ r.row.TS = RowAtIndex(i - 1).TS

C24_Witness ==
    /\ res.op = "DE.ReconstructRow"
    /\ res.rowID = DeLen
    /\ DeLen > de.checkpointInterval + 1
    /\ ~InRange(RowAtIndex(DeLen - 1).Value - RowAtIndex(DeLen - 2).Value)
    /\ ~InRange(RowAtIndex(DeLen - 1).TS - RowAtIndex(DeLen - 2).TS)
    /\ AccumulationOverflows(DeLen)
    /\ res.out = DeRowResult(RowAtIndex(DeLen - 1))

\* the encoder that complete AppendRow calls make of a sequence of rows
RECURSIVE RleOf(_)
RleOf(rows) ==
    IF Len(rows) = 0 THEN InitRLE
    ELSE RleAppendRow(RleOf(SubSeq(rows, 1, Len(rows) - 1)), rows[Len(rows)])

\* ReconstructRow of the last id held, as a reader would get it now
ReadOfLastId == RleReconstructRow(rle, RleLen)

\* C25: AppendRow is not atomic with respect to readers.  Between the
\* statements of one AppendRow the encoder is in a state where len(idList)
\* differs from len(valueList) or from the last entry of tsRunEnds; a
\* ReconstructRow(len(idList)) interleaved there reads valueList out of its
\* bounds or succeeds with an empty key.  Between AppendRow calls, that is
\* when the caller serializes them against reads, the lengths agree and the
\* read returns the appended row.
C25_AppendNotAtomic ==
    /\ AppendIdle =>
          /\ rle = RleOf(rleRows)
          /\ Len(rle.idList) = Len(rle.valueList)
          /\ RleLen >= 1 =>
                /\ rle.tsRunEnds[Len(rle.tsRunEnds)] = RleLen
                /\ ReadOfLastId = RleRowResult(rleRows[RleLen])
    /\ AtLine37 =>
          /\ Len(rle.idList) # Len(rle.valueList)
          /\ ReadOfLastId = RleRowPanic
    /\ (AtLine39 \/ AtLine44) =>
          /\ Len(rle.idList) = Len(rle.valueList)
          /\ IF Len(rle.tsRunEnds) = 0
             THEN ReadOfLastId = RleRowPanic
             ELSE /\ rle.tsRunEnds[Len(rle.tsRunEnds)] # RleLen
                  /\ ReadOfLastId = RleRowResult([ID |-> rle.idList[RleLen],
                                                  Value |-> rle.valueList[RleLen],
                                                  TS |-> EmptyStr])

C25_Witness ==
    /\ AtLine44
    /\ res.op = "RLE.ReconstructRow"
    /\ res.rowID = RleLen
    /\ AppendArg.TS # EmptyStr
    /\ res.out = RleRowResult([ID |-> AppendArg.ID,
                               Value |-> AppendArg.Value,
                               TS |-> EmptyStr])

QueryOps ==
    {"RLE.ReconstructRow", "RLE.GetTSFromRowID", "RLE.GetTSFromRowIDFaster",
     "RLE.GetCountofTS", "RLE.GetCountofTSFaster",
     "DE.ReconstructRow", "DE.ReconstructTable", "DE.VerifyDeltaEncodingCorrectness"}

AppendOps == {"RLE.AppendRow", "DE.AppendRow"}

\* C26: queries are read-only.  A call of ReconstructRow, GetTSFromRowID,
\* GetTSFromRowIDFaster, GetCountofTS, GetCountofTSFaster, ReconstructTable
\* or VerifyDeltaEncodingCorrectness, whether it succeeds or fails, leaves
\* every field of both encoders as it was; a step that changes an encoder is
\* an AppendRow, and no step changes checkpointInterval.
C26_QueriesReadOnly ==
    /\ [][res'.op \in QueryOps => (rle' = rle /\ de' = de)]_vars
    /\ [][(rle' # rle \/ de' # de) => res'.op \in AppendOps]_vars
    /\ [][de'.checkpointInterval = de.checkpointInterval]_vars

C26_Witness ==
    /\ res.op = "RLE.GetCountofTSFaster"
    /\ KeyPresent(res.key)
    /\ res.out = CountNotFound
    /\ RleLen >= 3
    /\ rle = RleOf(rleRows)

\* the row ids reconstructRow of the package-global variant accepts
GlobalAccepted == {rowID \in -1 .. (RleLen + 1) : ~globalRejects(rle, rowID)}

\* C27: in the package-global variant, for every rowID that reconstructRow
\* accepts on a non-empty table the returned id, value and ts are those of
\* one and the same appended row, and getTSFromRowID(rowID) equals
\* getTSFromRowIDFaster(rowID).
C27_GlobalVariantConsistent ==
    \A rowID \in GlobalAccepted :
        /\ ~reconstructRow(rle, rowID).panic
        /\ \E i \in 1 .. Len(rleRows) : reconstructRow(rle, rowID).row = rleRows[i]
        /\ getTSFromRowID(rle, rowID) = getTSFromRowIDFaster(rle, rowID)

=============================================================================
